---- MODULE Spec2Model ----
(***************************************************************************)
(* A model of setup.py of intervaltree: the version resolution run at      *)
(* import time, the long-description policy get_rst, the RST generation    *)
(* generate_rst, and the Markdown sanitizers chop_markdown_header and      *)
(* remove_markdown_links.                                                  *)
(*                                                                         *)
(* A text is a sequence of one-character strings.  The outcome of a call   *)
(* is a record: [kind |-> "return", val |-> text] for a returned text and  *)
(* [kind |-> <exception name>, val |-> <<>>] for a raised exception.       *)
(***************************************************************************)
EXTENDS Integers, Sequences, FiniteSets, TLC

VARIABLES
    md,            \* the Markdown text handed to a sanitizer
    out,           \* the outcome of the sanitizer call(s) made so far
    first,         \* the outcome of the first remove_markdown_links call
    applied,       \* how many times remove_markdown_links has been applied
    lines,         \* chop_markdown_header: the local list `md` after splitlines
    pc,            \* the position of the running function
    environ,       \* os.environ, restricted to the key PYPI
    git_describe,  \* stdout of `git describe`
    py3,           \* TRUE when the interpreter is Python 3, FALSE for Python 2
    version,       \* the module-level name `version`
    fsys,          \* the part of the filesystem get_rst looks at
    pandoc_ok,     \* whether `import pandoc` succeeds
    create_rst,    \* the module-level configuration flag create_rst
    rst_readme,    \* generate_rst: the value markdown2rst returned for README.md
    rst_changes,   \* generate_rst: the local changes_rst
    result,        \* the outcome of get_rst()
    warnings       \* how many warnings warn() has emitted

vars == <<md, out, first, applied, lines, pc, environ, git_describe, py3,
          version, fsys, pandoc_ok, create_rst, rst_readme, rst_changes,
          result, warnings>>

sanitizerVars == <<md, out, first, applied, lines>>
versionVars == <<environ, git_describe, py3, version>>
rstVars == <<fsys, pandoc_ok, create_rst, rst_readme, rst_changes, result, warnings>>

-----------------------------------------------------------------------------
(* Bounds of the model *)

\* longest text over LinkAlphabet handed to remove_markdown_links once
MaxLinkLen == 6
\* longest text over LinkAlphabet handed to remove_markdown_links twice
MaxIdemLen == 5
\* longest text over BracketAlphabet handed to remove_markdown_links twice
MaxNestLen == 9
\* longest text handed to chop_markdown_header
MaxChopLen == 6
\* longest `git describe` output
MaxDescLen == 5
\* longest README.md and CHANGELOG.md
MaxDocLen == 2

LinkAlphabet == {"[", "]", "(", ")", "\\", "a"}
BracketAlphabet == {"[", "]", "a"}
ChopAlphabet == {"\n", " ", "[", "!", "a"}
DescAlphabet == {"1", "g", "-", "\n"}
DocAlphabet == {"a", "\n"}

Texts(A, n) == UNION {[1..k -> A] : k \in 0..n}

-----------------------------------------------------------------------------
(* Outcomes *)

Return(t) == [kind |-> "return", val |-> t]
Raise(e) == [kind |-> e, val |-> <<>>]
NotRun == [kind |-> "none", val |-> <<>>]
Returned(o) == o.kind = "return"
Raised(o) == o.kind \notin {"return", "none"}

-----------------------------------------------------------------------------
(* Python string primitives *)

\* str.startswith
startswith(s, prefix) ==
    /\ Len(s) >= Len(prefix)
    /\ SubSeq(s, 1, Len(prefix)) = prefix

\* the characters str.strip() removes, among those of the alphabets
Whitespace == {" ", "\n"}

\* str.strip(): without leading and trailing whitespace
RECURSIVE lstrip(_)
lstrip(s) ==
    IF s # <<>> /\ Head(s) \in Whitespace THEN lstrip(Tail(s)) ELSE s

RECURSIVE rstrip(_)
rstrip(s) ==
    IF s # <<>> /\ s[Len(s)] \in Whitespace
    THEN rstrip(SubSeq(s, 1, Len(s) - 1))
    ELSE s

strip(s) == rstrip(lstrip(s))

\* the first index >= from at which s holds c, or 0
RECURSIVE find(_, _, _)
find(s, c, from) ==
    IF from > Len(s) THEN 0
    ELSE IF s[from] = c THEN from
    ELSE find(s, c, from + 1)

\* str.split(sep) for a one-character sep: always at least one field
RECURSIVE split(_, _)
split(s, sep) ==
    LET i == find(s, sep, 1)
    IN  IF i = 0 THEN <<s>>
        ELSE <<SubSeq(s, 1, i - 1)>> \o split(SubSeq(s, i + 1, Len(s)), sep)

\* str.splitlines(): a final line terminator opens no further line
RECURSIVE splitlines(_)
splitlines(s) ==
    IF s = <<>> THEN <<>>
    ELSE LET i == find(s, "\n", 1)
         IN  IF i = 0 THEN <<s>>
             ELSE <<SubSeq(s, 1, i - 1)>> \o splitlines(SubSeq(s, i + 1, Len(s)))

\* sep.join(parts) for a one-character sep
RECURSIVE join(_, _)
join(sep, parts) ==
    IF parts = <<>> THEN <<>>
    ELSE IF Len(parts) = 1 THEN parts[1]
    ELSE parts[1] \o <<sep>> \o join(sep, Tail(parts))

-----------------------------------------------------------------------------
\* remove_markdown_links: the two regular expressions
\*
\*   \[((?:[^\]]|\\\])+)\]\[((?:[^\]]|\\\])*)\]      named links
\*   \[((?:[^\]]|\\\])+)\]\(((?:[^\]]|\\\])*)\)      url links
\*
\* as Python's backtracking matcher runs them.  A group (?:[^\]]|\\\])
\* repeated from position `from` consumes one character that is not "]"
\* (first alternative) or the two characters "\]" (second alternative),
\* so it can be at every position up to the first "]" that no backslash
\* inside the group precedes, and no further.

Min(S) == CHOOSE x \in S : \A y \in S : x <= y
Max(S) == CHOOSE x \in S : \A y \in S : x >= y

\* the first "]" at or after `from` that the group cannot consume as "\]",
\* or Len(s) + 1
RECURSIVE Block(_, _, _)
Block(s, from, q) ==
    IF q > Len(s) THEN Len(s) + 1
    ELSE IF s[q] = "]" /\ ~(q > from /\ s[q - 1] = "\\") THEN q
    ELSE Block(s, from, q + 1)

\* Group 1 and the "]" behind it, after the "[" at i: the positions of the "]"
\* that can close the link text.  At "\]" the first alternative takes the
\* backslash alone and the "]" then closes the text, which the matcher tries
\* before the second alternative: it tries the ends in increasing order.
TextEnds(s, i) ==
    {k \in (i + 2)..Len(s) : k <= Block(s, i + 1, i + 1) /\ s[k] = "]"}

\* Group 2 of the named-link pattern and its "]", from `from`: nothing
\* follows the closing "]", so the first "]" (escaped or not) ends the match.
NameEnd(s, from) == find(s, "]", from)

\* Group 2 of the url-link pattern and its ")", from `from`: the group
\* is greedy and excludes "]", not ")", so it runs to the last ")" before the
\* first "]" it cannot consume.
UrlEnds(s, from) ==
    {p \in from..Len(s) : p < Block(s, from, from) /\ s[p] = ")"}

NoMatch == [k |-> 0, e |-> 0]

\* re.match of the named-link pattern at position i: k is the "]" closing the
\* link text, e the last character of the match
NamedLinkMatch(s, i) ==
    LET ks == {k \in TextEnds(s, i) :
                  /\ k + 1 <= Len(s)
                  /\ s[k + 1] = "["
                  /\ NameEnd(s, k + 2) # 0}
    IN  IF s[i] # "[" \/ ks = {} THEN NoMatch
        ELSE [k |-> Min(ks), e |-> NameEnd(s, Min(ks) + 2)]

\* re.match of the url-link pattern at position i
UrlLinkMatch(s, i) ==
    LET ks == {k \in TextEnds(s, i) :
                  /\ k + 1 <= Len(s)
                  /\ s[k + 1] = "("
                  /\ UrlEnds(s, k + 2) # {}}
    IN  IF s[i] # "[" \/ ks = {} THEN NoMatch
        ELSE [k |-> Min(ks), e |-> Max(UrlEnds(s, Min(ks) + 2))]

\* sub_named with the brackets of the link text inside group 1
RECURSIVE sub_named_BracketsInGroup(_, _)
sub_named_BracketsInGroup(s, pos) ==
    IF pos > Len(s) THEN <<>>
    ELSE LET m == NamedLinkMatch(s, pos)
         IN  IF m = NoMatch THEN <<s[pos]>> \o sub_named_BracketsInGroup(s, pos + 1)
             ELSE SubSeq(s, pos, m.k) \o sub_named_BracketsInGroup(s, m.e + 1)

\* re.sub(named-link pattern, '\\1', s) from position pos on: one sweep from
\* left to right; a match is replaced by its group 1 and the sweep goes on
\* after the match
RECURSIVE sub_named(_, _)
sub_named(s, pos) ==
    IF pos > Len(s) THEN <<>>
    ELSE LET m == NamedLinkMatch(s, pos)
         IN  IF m = NoMatch THEN <<s[pos]>> \o sub_named(s, pos + 1)
             ELSE SubSeq(s, pos + 1, m.k - 1) \o sub_named(s, m.e + 1)

\* re.sub(url-link pattern, '\\1', s) from position pos on
RECURSIVE sub_url(_, _)
sub_url(s, pos) ==
    IF pos > Len(s) THEN <<>>
    ELSE LET m == UrlLinkMatch(s, pos)
         IN  IF m = NoMatch THEN <<s[pos]>> \o sub_url(s, pos + 1)
             ELSE SubSeq(s, pos + 1, m.k - 1) \o sub_url(s, m.e + 1)

remove_markdown_links(s) == sub_url(sub_named(s, 1), 1)

-----------------------------------------------------------------------------
(* chop_markdown_header *)

\* ChopCond without the badge test
ChopCond_NoBadge(ls) == strip(ls[1]) = <<>>

\* the loop condition `not md[0].strip() or md[0].startswith('[![')`;
\* evaluated on a non-empty list only
ChopCond(ls) ==
    \/ strip(ls[1]) = <<>>
    \/ startswith(ls[1], <<"[", "!", "[">>)

\* the whole function: md[0] on the empty list raises IndexError
RECURSIVE ChopLoop(_)
ChopLoop(ls) ==
    IF ls = <<>> THEN Raise("IndexError")
    ELSE IF ChopCond(ls) THEN ChopLoop(Tail(ls))
    ELSE Return(join("\n", ls))

chop_markdown_header(s) == ChopLoop(splitlines(s))

\* pypi_sanitize_markdown: an exception of chop_markdown_header propagates
pypi_sanitize_markdown(s) ==
    LET chopped == chop_markdown_header(s)
    IN  IF Returned(chopped) THEN Return(remove_markdown_links(chopped.val))
        ELSE chopped

-----------------------------------------------------------------------------
(* Version resolution: lines 39-54, run once when setup.py is imported *)

target_version == <<"2", ".", "1", ".", "1">>

\* the values of os.environ['PYPI'] the model tries
PypiValues == {"pypitest", "pypi", "", "PYPITEST", "pypitest "}

NoEnviron == [key \in {} |-> ""]
Environs == {NoEnviron} \cup {[key \in {"PYPI"} |-> v] : v \in PypiValues}

\* development_version_number().  communicate()[0] is a str under Python 2
\* and a bytes object under Python 3, where bytes.split('-') raises
\* TypeError whatever the bytes are.  Unpacking into three names raises
\* ValueError unless split() yields exactly three fields.
development_version_number ==
    LET fields == split(strip(git_describe), "-")
    IN  IF py3 THEN Raise("TypeError")
        ELSE IF Len(fields) # 3 THEN Raise("ValueError")
        ELSE Return(fields[1] \o <<"b">> \o fields[2])

\* is_dev_version without the comparison of the value
is_dev_version_AnyValue == "PYPI" \in DOMAIN environ

is_dev_version == "PYPI" \in DOMAIN environ /\ environ["PYPI"] = "pypitest"

\* lines 50-54
ResolveVersion ==
    /\ pc = "version_start"
    /\ version' = IF is_dev_version THEN development_version_number
                  ELSE Return(target_version)
    /\ pc' = "version_done"
    /\ UNCHANGED <<environ, git_describe, py3>>
    /\ UNCHANGED <<sanitizerVars, rstVars>>

-----------------------------------------------------------------------------
(* The sanitizers, run on their own *)

\* how many times in a row the model applies remove_markdown_links
MaxApplied == 2

\* remove_markdown_links applied to the text, or to its own last result
RemoveMarkdownLinks ==
    /\ pc = "links"
    /\ applied < MaxApplied
    /\ out' = Return(remove_markdown_links(IF applied = 0 THEN md ELSE out.val))
    /\ first' = IF applied = 0 THEN out' ELSE first
    /\ applied' = applied + 1
    /\ UNCHANGED <<md, lines, pc>>
    /\ UNCHANGED <<versionVars, rstVars>>

\* chop_markdown_header, line 163: md = md.splitlines()
ChopSplit ==
    /\ pc = "chop_start"
    /\ lines' = splitlines(md)
    /\ pc' = "chop_loop"
    /\ UNCHANGED <<md, out, first, applied>>
    /\ UNCHANGED <<versionVars, rstVars>>

\* lines 164-165: the loop condition holds, md = md[1:]
ChopDrop ==
    /\ pc = "chop_loop"
    /\ lines # <<>>
    /\ ChopCond(lines)
    /\ lines' = Tail(lines)
    /\ UNCHANGED <<md, out, first, applied, pc>>
    /\ UNCHANGED <<versionVars, rstVars>>

\* ChopIndexError for a loop that stops on the empty list and joins it
ChopIndexError_ReturnsEmpty ==
    /\ pc = "chop_loop"
    /\ lines = <<>>
    /\ out' = Return(<<>>)
    /\ pc' = "chop_done"
    /\ UNCHANGED <<md, first, applied, lines>>
    /\ UNCHANGED <<versionVars, rstVars>>

\* line 164 on the empty list: md[0] raises IndexError
ChopIndexError ==
    /\ pc = "chop_loop"
    /\ lines = <<>>
    /\ out' = Raise("IndexError")
    /\ pc' = "chop_done"
    /\ UNCHANGED <<md, first, applied, lines>>
    /\ UNCHANGED <<versionVars, rstVars>>

\* lines 166-167: the loop condition fails, return '\n'.join(md)
ChopJoin ==
    /\ pc = "chop_loop"
    /\ lines # <<>>
    /\ ~ChopCond(lines)
    /\ out' = Return(join("\n", lines))
    /\ pc' = "chop_done"
    /\ UNCHANGED <<md, first, applied, lines>>
    /\ UNCHANGED <<versionVars, rstVars>>

-----------------------------------------------------------------------------
(* The long description: get_rst, generate_rst, markdown2rst *)

\* longest text the converter returns, and longest README.rst found on disk
MaxRstLen == 1

RstAlphabet == {"r", "\n"}
RstTexts == Texts(RstAlphabet, MaxRstLen)
MdDocs == Texts(DocAlphabet, MaxDocLen)

File(t) == [exists |-> TRUE, data |-> t]
AbsentFile == [exists |-> FALSE, data |-> <<>>]

\* os.path.isfile
isfile(f, name) == f[name].exists

\* utils.fs.read_file: the contents of the file
fs_read_file(f, name) == f[name].data

\* utils.fs.update_file: the file holds exactly `data` afterwards, whether or
\* not it existed
fs_update_file(f, name, data) == [f EXCEPT ![name] = File(data)]

\* utils.fs.rm_f: the file does not exist afterwards, whether or not it existed
fs_rm_f(f, name) == [f EXCEPT ![name] = AbsentFile]

\* The bare name read_file of lines 84, 89 and 91: setup.py imports the module
\* utils.fs as fs and binds no name read_file, so evaluating the call raises
\* NameError before any file is opened.
read_file(f, name) == Raise("NameError")

\* markdown2rst: the outcomes of one call.  `import pandoc` failing is
\* re-raised (lines 121-124); otherwise pandoc's rendering is any RST text.
markdown2rst(text) ==
    IF pandoc_ok THEN {Return(r) : r \in RstTexts}
    ELSE {Raise("ImportError")}

\* the first line of `head`, kept as one symbol of the text
NoticeLine ==
    ".. This file is automatically generated by setup.py from README.md and CHANGELOG.md."

\* pypi_prepare_rst: head is the notice line, its newline and an empty line
pypi_prepare_rst(rst) == <<NoticeLine, "\n", "\n">> \o rst

\* AssembleRst without the newline between the two converted texts
AssembleRst_NoNewline(rst, changes_rst) == pypi_prepare_rst(rst) \o changes_rst

\* generate_rst, lines 103 and 107: rst = pypi_prepare_rst(rst), then
\* rst += "\n" + changes_rst
AssembleRst(rst, changes_rst) == pypi_prepare_rst(rst) \o <<"\n">> \o changes_rst

\* WriteIt with the test of create_rst inverted
WriteIt_Inverted(f, rst) ==
    IF create_rst THEN fs_rm_f(f, "README_rst")
    ELSE fs_update_file(f, "README_rst", rst)

\* generate_rst, lines 110-113
WriteIt(f, rst) ==
    IF create_rst THEN fs_update_file(f, "README_rst", rst)
    ELSE fs_rm_f(f, "README_rst")

\* generate_rst: the first exception raised ends the call and leaves the
\* filesystem as it was
GenerateRst ==
    LET md1 == pypi_sanitize_markdown(fs_read_file(fsys, "README_md"))
        md2 == pypi_sanitize_markdown(fs_read_file(fsys, "CHANGELOG_md"))
    IN  \/ /\ Raised(md1)
           /\ result' = md1
           /\ UNCHANGED <<fsys, rst_readme, rst_changes>>
        \/ /\ Returned(md1)
           /\ \E o1 \in markdown2rst(md1.val) :
                \/ /\ Raised(o1)
                   /\ result' = o1
                   /\ UNCHANGED <<fsys, rst_readme, rst_changes>>
                \/ /\ Returned(o1)
                   /\ rst_readme' = o1.val
                   /\ \/ /\ Raised(md2)
                         /\ result' = md2
                         /\ UNCHANGED <<fsys, rst_changes>>
                      \/ /\ Returned(md2)
                         /\ \E o2 \in markdown2rst(md2.val) :
                              /\ Returned(o2)
                              /\ rst_changes' = o2.val
                              /\ fsys' = WriteIt(fsys, AssembleRst(o1.val, o2.val))
                              /\ result' = Return(AssembleRst(o1.val, o2.val))

\* the test of line 79
RegenerateTier(f) == f.isdir_pyandoc_pandoc /\ f.islink_pandoc

\* get_rst, lines 82-84
ReadRst ==
    /\ result' = read_file(fsys, "README_rst")
    /\ UNCHANGED <<fsys, rst_readme, rst_changes, warnings>>

\* get_rst, lines 85-93: warn() comes first
ReadMarkdown ==
    /\ warnings' = warnings + 1
    /\ LET readme == read_file(fsys, "README_md")
           changes == read_file(fsys, "CHANGELOG_md")
       IN  result' = IF Raised(readme) THEN readme
                     ELSE IF Raised(changes) THEN changes
                     ELSE Return(readme.val \o <<"\n">> \o changes.val)
    /\ UNCHANGED <<fsys, rst_readme, rst_changes>>

\* get_rst(), called once by setup() at line 197
GetRst ==
    /\ pc = "rst_start"
    /\ pc' = "rst_done"
    /\ \/ /\ RegenerateTier(fsys)
          /\ GenerateRst
          /\ UNCHANGED warnings
       \/ /\ ~RegenerateTier(fsys)
          /\ isfile(fsys, "README_rst")
          /\ ReadRst
       \/ /\ ~RegenerateTier(fsys)
          /\ ~isfile(fsys, "README_rst")
          /\ ReadMarkdown
    /\ UNCHANGED <<pandoc_ok, create_rst>>
    /\ UNCHANGED <<sanitizerVars, versionVars>>

-----------------------------------------------------------------------------
(* Initial states and specifications *)

SanitizerIdle ==
    /\ md = <<>>
    /\ out = NotRun
    /\ first = NotRun
    /\ applied = 0
    /\ lines = <<>>

VersionIdle ==
    /\ environ = NoEnviron
    /\ git_describe = <<>>
    /\ py3 = FALSE
    /\ version = NotRun

RstIdle ==
    /\ fsys = [isdir_pyandoc_pandoc |-> FALSE, islink_pandoc |-> FALSE,
               README_rst |-> AbsentFile, README_md |-> File(<<>>),
               CHANGELOG_md |-> File(<<>>)]
    /\ pandoc_ok = FALSE
    /\ create_rst = TRUE
    /\ rst_readme = <<>>
    /\ rst_changes = <<>>
    /\ result = NotRun
    /\ warnings = 0

\* remove_markdown_links on every text over LinkAlphabet up to MaxLinkLen
InitLinks ==
    /\ md \in Texts(LinkAlphabet, MaxLinkLen)
    /\ out = NotRun
    /\ first = NotRun
    /\ applied = 0
    /\ lines = <<>>
    /\ pc = "links"
    /\ VersionIdle
    /\ RstIdle

\* remove_markdown_links on every text over LinkAlphabet up to MaxIdemLen and
\* every text over BracketAlphabet, where brackets nest, up to MaxNestLen
InitIdem ==
    /\ md \in Texts(LinkAlphabet, MaxIdemLen) \cup Texts(BracketAlphabet, MaxNestLen)
    /\ out = NotRun
    /\ first = NotRun
    /\ applied = 0
    /\ lines = <<>>
    /\ pc = "links"
    /\ VersionIdle
    /\ RstIdle

InitChop ==
    /\ md \in Texts(ChopAlphabet, MaxChopLen)
    /\ out = NotRun
    /\ first = NotRun
    /\ applied = 0
    /\ lines = <<>>
    /\ pc = "chop_start"
    /\ VersionIdle
    /\ RstIdle

\* any interpreter, any PYPI setting, any `git describe` output
InitVersion ==
    /\ environ \in Environs
    /\ git_describe \in Texts(DescAlphabet, MaxDescLen)
    /\ py3 \in BOOLEAN
    /\ version = NotRun
    /\ pc = "version_start"
    /\ SanitizerIdle
    /\ RstIdle

\* any filesystem in which README.md and CHANGELOG.md exist, pandoc importable
\* or not, create_rst as configured (line 40 sets True) or switched off
InitRst ==
    /\ fsys \in [isdir_pyandoc_pandoc : BOOLEAN, islink_pandoc : BOOLEAN,
                 README_rst : {AbsentFile} \cup {File(t) : t \in RstTexts},
                 README_md : {File(t) : t \in MdDocs},
                 CHANGELOG_md : {File(t) : t \in MdDocs}]
    /\ pandoc_ok \in BOOLEAN
    /\ create_rst \in BOOLEAN
    /\ rst_readme = <<>>
    /\ rst_changes = <<>>
    /\ result = NotRun
    /\ warnings = 0
    /\ pc = "rst_start"
    /\ SanitizerIdle
    /\ VersionIdle

NextChop == ChopSplit \/ ChopDrop \/ ChopIndexError \/ ChopJoin

SpecLinks == InitLinks /\ [][RemoveMarkdownLinks]_vars
SpecIdem == InitIdem /\ [][RemoveMarkdownLinks]_vars
SpecChop == InitChop /\ [][NextChop]_vars
\* chop_markdown_header runs to its end: nothing else runs beside it
SpecChopFair == SpecChop /\ WF_vars(NextChop)
SpecVersion == InitVersion /\ [][ResolveVersion]_vars
SpecRst == InitRst /\ [][GetRst]_vars

Init == InitLinks \/ InitIdem \/ InitChop \/ InitVersion \/ InitRst
Next == RemoveMarkdownLinks \/ NextChop \/ ResolveVersion \/ GetRst
Spec == Init /\ [][Next]_vars

-----------------------------------------------------------------------------
(* The long description: claims C1, C2, C3, C9 (specification SpecRst) *)

\* what get_rst is to return from README.md and CHANGELOG.md unconverted
RawMarkdown(f) == f.README_md.data \o <<"\n">> \o f.CHANGELOG_md.data

\* C1: get_rst picks one of three tiers, first match winning: with the
\* directory pyandoc/pandoc and the link pandoc it returns the regenerated RST;
\* otherwise, with README.rst present, the contents of README.rst unchanged;
\* otherwise it warns and returns README.md, a newline and CHANGELOG.md.
C1_ThreeTiers ==
    pc = "rst_done" =>
        /\ RegenerateTier(fsys) =>
              /\ warnings = 0
              /\ Returned(result) =>
                    result.val = AssembleRst(rst_readme, rst_changes)
        /\ (~RegenerateTier(fsys) /\ isfile(fsys, "README_rst")) =>
              /\ warnings = 0
              /\ result = Return(fsys.README_rst.data)
        /\ (~RegenerateTier(fsys) /\ ~isfile(fsys, "README_rst")) =>
              /\ warnings = 1
              /\ result = Return(RawMarkdown(fsys))

\* C2: with the converter unavailable get_rst does not fail, whatever the
\* filesystem holds (the directory pyandoc/pandoc and the link pandoc
\* included): it returns README.rst when that exists, and otherwise the raw
\* Markdown with exactly one warning.
C2_ConverterUnavailableRecovered ==
    (pc = "rst_done" /\ ~pandoc_ok) =>
        /\ ~Raised(result)
        /\ isfile(fsys, "README_rst") => result = Return(fsys.README_rst.data)
        /\ ~isfile(fsys, "README_rst") =>
              /\ result = Return(RawMarkdown(fsys))
              /\ warnings = 1

\* the part of C2 that does not rest on the other tiers: no ImportError leaves
\* get_rst
C2_NoImportErrorEscapes ==
    pc = "rst_done" => result # Raise("ImportError")

\* C3: after a successful regeneration README.rst follows create_rst: with
\* create_rst it exists and holds the returned text, without create_rst it does
\* not exist; the returned text is the assembled RST in both cases.
C3_ReadmeRstFollowsCreateRst ==
    (pc = "rst_done" /\ RegenerateTier(fsys) /\ Returned(result)) =>
        /\ create_rst => fsys.README_rst = File(result.val)
        /\ ~create_rst => ~isfile(fsys, "README_rst")
        /\ result.val = AssembleRst(rst_readme, rst_changes)

\* a regeneration with create_rst switched off has run and README.rst is gone
C3_Witness ==
    /\ pc = "rst_done"
    /\ RegenerateTier(fsys)
    /\ Returned(result)
    /\ ~create_rst
    /\ ~isfile(fsys, "README_rst")
    /\ rst_readme # rst_changes

\* C9: the regenerated document is the provenance line, an empty line, the
\* converted README, one newline and the converted CHANGELOG, in this order.
C9_AssembledDocument ==
    (pc = "rst_done" /\ RegenerateTier(fsys) /\ Returned(result)) =>
        result.val = <<NoticeLine, "\n", "\n">> \o rst_readme \o <<"\n">> \o rst_changes

\* a regeneration has returned a document made of two different, non-empty
\* converted texts
C9_Witness ==
    /\ pc = "rst_done"
    /\ RegenerateTier(fsys)
    /\ Returned(result)
    /\ rst_readme = <<"r">>
    /\ rst_changes = <<"\n">>
    /\ Len(result.val) = 6

-----------------------------------------------------------------------------
(* Version resolution: claims C4, C5 (specification SpecVersion) *)

\* C4: in development mode the version is release + "b" + build exactly when
\* the describe output splits on "-" into three fields, and resolution fails
\* for every other output.
C4_DevelopmentVersion ==
    (pc = "version_done" /\ is_dev_version) =>
        LET fields == split(strip(git_describe), "-")
        IN  IF Len(fields) = 3
            THEN version = Return(fields[1] \o <<"b">> \o fields[2])
            ELSE Raised(version)

\* C4 holds of the code run by Python 2
C4_DevelopmentVersionPython2 ==
    (pc = "version_done" /\ is_dev_version /\ ~py3) =>
        LET fields == split(strip(git_describe), "-")
        IN  IF Len(fields) = 3
            THEN version = Return(fields[1] \o <<"b">> \o fields[2])
            ELSE version = Raise("ValueError")

\* C5: PYPI alone selects the path: the development path exactly when PYPI is
\* set to "pypitest", and otherwise the version is target_version unchanged,
\* whatever `git describe` prints.
C5_PathSelectedByPYPI ==
    pc = "version_done" =>
        IF "PYPI" \in DOMAIN environ /\ environ["PYPI"] = "pypitest"
        THEN version = development_version_number /\ version # Return(target_version)
        ELSE version = Return(<<"2", ".", "1", ".", "1">>)

\* PYPI is set to another value, `git describe` prints a well-formed
\* description, and the version is the target version
C5_Witness ==
    /\ pc = "version_done"
    /\ "PYPI" \in DOMAIN environ
    /\ environ["PYPI"] = "pypi"
    /\ git_describe = <<"1", "-", "1", "-", "g">>
    /\ version = Return(target_version)

-----------------------------------------------------------------------------
(* chop_markdown_header: claims C6, C7 (specifications SpecChop, SpecChopFair) *)

\* a line that is empty or holds whitespace only
BlankLine(line) == \A j \in DOMAIN line : line[j] \in Whitespace

\* a line that starts with the three characters of a badge
BadgeLine(line) ==
    /\ Len(line) >= 3
    /\ line[1] = "["
    /\ line[2] = "!"
    /\ line[3] = "["

\* the text from its first line that is neither blank nor a badge line onward,
\* unchanged; empty when there is no such line
RECURSIVE FromFirstKeptLine(_)
FromFirstKeptLine(s) ==
    IF s = <<>> THEN <<>>
    ELSE LET i == find(s, "\n", 1)
             line == IF i = 0 THEN s ELSE SubSeq(s, 1, i - 1)
         IN  IF BlankLine(line) \/ BadgeLine(line)
             THEN IF i = 0 THEN <<>>
                  ELSE FromFirstKeptLine(SubSeq(s, i + 1, Len(s)))
             ELSE s

HasKeptLine(s) == FromFirstKeptLine(s) # <<>>

WithoutFinalNewline(s) ==
    IF s # <<>> /\ s[Len(s)] = "\n" THEN SubSeq(s, 1, Len(s) - 1) ELSE s

\* C6 as claimed: chop_markdown_header returns everything from the first line
\* that is neither blank nor a badge line onward unchanged, the trailing
\* newline of the text included.
C6_ChopKeepsRestUnchanged ==
    (pc = "chop_done" /\ HasKeptLine(md)) =>
        out = Return(FromFirstKeptLine(md))

\* C6 as amended: chop_markdown_header removes exactly the leading run of blank
\* and badge lines and returns the lines from the first other line onward
\* joined with newlines: the text from that line onward without its final
\* newline.
C6_ChopDropsFinalNewline ==
    (pc = "chop_done" /\ HasKeptLine(md)) =>
        out = Return(WithoutFinalNewline(FromFirstKeptLine(md)))

\* a badge line, a content line and a trailing newline have been chopped to
\* the content line alone
C6_Witness ==
    /\ pc = "chop_done"
    /\ md = <<"[", "!", "[", "\n", "a", "\n">>
    /\ out = Return(<<"a">>)

\* C7: on a text whose lines are all blank or badge lines (the empty text
\* included) chop_markdown_header comes to an end, raises IndexError once the
\* lines are used up, and never returns a text.
C7_AllBlankFails ==
    /\ (pc = "chop_start" /\ ~HasKeptLine(md))
          ~> (pc = "chop_done" /\ out = Raise("IndexError"))
    /\ [](~HasKeptLine(md) => ~Returned(out))

\* an empty line, a whitespace-only line and a badge line have been dropped
\* and the call has failed
C7_Witness ==
    /\ pc = "chop_done"
    /\ md = <<"\n", " ", "\n", "[", "!", "[">>
    /\ lines = <<>>
    /\ out = Raise("IndexError")

\* the loop of chop_markdown_header and the function the regeneration calls
\* are the same function
ChopSteps_AgreeWithFunction ==
    pc = "chop_done" => out = chop_markdown_header(md)

-----------------------------------------------------------------------------
(* remove_markdown_links: claims C8 (specification SpecLinks) and C10      *)
(* (specification SpecIdem)                                                *)

Chars(s) == {s[j] : j \in DOMAIN s}

\* text without brackets, parentheses and backslashes
Plain(t) == Chars(t) \cap {"[", "]", "(", ")", "\\"} = {}

\* link text: plain characters and escaped closing brackets
LinkText(t) ==
    /\ t # <<>>
    /\ Chars(t) \cap {"[", "(", ")"} = {}
    /\ \A j \in DOMAIN t :
          /\ t[j] = "\\" => (j < Len(t) /\ t[j + 1] = "]")
          /\ t[j] = "]" => (j > 1 /\ t[j - 1] = "\\")

Closer(c) == IF c = "[" THEN "]" ELSE ")"

\* C8: remove_markdown_links rewrites [text][ref] and [text](url) to text,
\* where text may hold escaped closing brackets, and leaves everything else as
\* it is: a text without link syntax is returned unchanged, and what follows a
\* link (parenthesised text included) is kept.
C8_LinksRemovedRestKept ==
    applied = 1 =>
        /\ "[" \notin Chars(md) => out = Return(md)
        /\ \A k \in 1..Len(md) : \A e \in 1..Len(md) :
              ( /\ md[1] = "["
                /\ k >= 3
                /\ e >= k + 2
                /\ LinkText(SubSeq(md, 2, k - 1))
                /\ md[k] = "]"
                /\ md[k + 1] \in {"[", "("}
                /\ Plain(SubSeq(md, k + 2, e - 1))
                /\ md[e] = Closer(md[k + 1])
                /\ "[" \notin Chars(SubSeq(md, e + 1, Len(md))) )
              => out = Return(SubSeq(md, 2, k - 1) \o SubSeq(md, e + 1, Len(md)))

\* C8 for a link with nothing but plain text behind it on which no ")" follows
C8_LinksRemovedWhenNoParenFollows ==
    applied = 1 =>
        /\ "[" \notin Chars(md) => out = Return(md)
        /\ \A k \in 1..Len(md) : \A e \in 1..Len(md) :
              ( /\ md[1] = "["
                /\ k >= 3
                /\ e >= k + 2
                /\ LinkText(SubSeq(md, 2, k - 1))
                /\ md[k] = "]"
                /\ md[k + 1] \in {"[", "("}
                /\ Plain(SubSeq(md, k + 2, e - 1))
                /\ md[e] = Closer(md[k + 1])
                /\ "[" \notin Chars(SubSeq(md, e + 1, Len(md)))
                /\ (md[k + 1] = "(" => ")" \notin Chars(SubSeq(md, e + 1, Len(md)))) )
              => out = Return(SubSeq(md, 2, k - 1) \o SubSeq(md, e + 1, Len(md)))

\* no "[" stands between a "[" and the next "]"
NoNestedBracket(s) ==
    \A i \in DOMAIN s : \A j \in DOMAIN s :
        (i < j /\ s[i] = "[" /\ s[j] = "[") =>
            \E k \in (i + 1)..(j - 1) : s[k] = "]"

\* C10 as claimed: applying remove_markdown_links to its own output returns
\* that output unchanged, for every text.
C10_Idempotent ==
    applied >= 2 => out = first

\* C10 as amended: applying remove_markdown_links to its own output returns
\* that output unchanged for every text without a backslash in which no
\* bracket opens inside another.
C10_IdempotentWithoutNesting ==
    (applied >= 2 /\ NoNestedBracket(md) /\ "\\" \notin Chars(md)) =>
        out = first

\* a url link has been removed by the first application and the second
\* application has changed nothing
C10_Witness ==
    /\ applied = 2
    /\ md = <<"[", "a", "]", "(", ")">>
    /\ NoNestedBracket(md)
    /\ first = Return(<<"a">>)
    /\ out = first

====
